---- MODULE Spec2Model ----
(***************************************************************************)
(* State-machine model of the synthetic data generation engine of the      *)
(* Greater Boston Smart City Dashboard (src/app.py): BostonConfig and      *)
(* BostonDataSimulator with its four generators.                           *)
(*                                                                         *)
(* Real-valued quantities are fixed-point integers in units of 1/Scale     *)
(* (1e-4), so that the output rounding (round(x, 1), round(x, 3)) is a     *)
(* real conversion and not the identity.  Random draws are existentially   *)
(* chosen from sample sequences that contain both ends of the source's     *)
(* range and interior points.                                              *)
(*                                                                         *)
(* A record list under construction (traffic_data, vehicles, aqi_data) is  *)
(* represented by its length `rows` and by `row`, the record appended by   *)
(* the current loop iteration; every element of a list is `row` in the     *)
(* state reached by the iteration that appended it.                        *)
(***************************************************************************)
EXTENDS Integers, Sequences, FiniteSets, TLC

VARIABLES
    current_time,   \* self.current_time, seconds since the epoch
    pc,             \* the generator being executed, or "idle"
    idx,            \* position of the generator's (outer) for loop
    rows,           \* len() of the list the running generator is building
    row,            \* the record built by the current iteration, or NoRow
    locals,         \* the local variables of the running generator's iteration
    ret,            \* outcome of the most recent generator invocation
    runs,           \* two simulators built at the same instant (SpecDet)
    probe,          \* the value a computation is applied to on its own: an aqi
                    \* (SpecBands), a vehicle collection (SpecFleet)
    main            \* main(): its position and its local variables (SpecMain)

vars == <<current_time, pc, idx, rows, row, locals, ret, runs, probe, main>>

-----------------------------------------------------------------------------
(* Fixed-point arithmetic and the model's bounds *)

Scale == 10000

\* number of equal steps a continuous uniform range is sampled at
GridN == 3
\* number of equal steps a draw that feeds no other value is sampled at; the
\* draws of one record that feed nothing else are sampled together, the k-th
\* point of one with the k-th or the k-th last point of the other
CoarseN == 1
\* largest value a Poisson draw is sampled at
MaxPoisson == 2
\* number of distinct initial states of the interpreter's `random` generator
PySeeds == 3

NoRow == [kind |-> "none"]
NoLocals == [line |-> "None"]
NoRet == [gen |-> "none", status |-> "none", rows |-> 0]
NoRuns == <<>>
NoProbe == [aqi |-> -1, category |-> "None", color |-> "None"]
NoMain == [pc |-> "none"]

Max(a, b) == IF a >= b THEN a ELSE b
Min(a, b) == IF a <= b THEN a ELSE b

\* nearest integer to num/den (den > 0), ties to the even integer: Python's round()
RoundHE(num, den) ==
    LET f == num \div den
        r == num % den
    IN  IF 2 * r < den THEN f
        ELSE IF 2 * r > den THEN f + 1
        ELSE IF f % 2 = 0 THEN f ELSE f + 1

\* round(x, k): x in units of 1/Scale, q = Scale / 10^k
Round(x, q) == q * RoundHE(x, q)

\* sample points of random.uniform(lo, hi) / random.randint(lo, hi)
Samples(lo, hi, n) == [k \in 1..(n + 1) |-> lo + ((hi - lo) * (k - 1)) \div n]

\* np.random.normal(mean, sd) at z thousandths of a standard deviation
ZSamples == <<-4000, -1605, -3, 0, 4, 1605, 4000>>
Normal(mean, sd, z) == mean + (sd * z) \div 1000

\* np.random.poisson(lam): lam = 0 yields 0, otherwise any natural number
PoissonSamples(lam) == IF lam = 0 THEN <<0>> ELSE [k \in 1..(MaxPoisson + 1) |-> k - 1]

\* random.random(): a float in [0, 1)
RandomSamples == <<0, 999, 1000, 5000, 9999>>

Range(s) == {s[k] : k \in 1..Len(s)}

-----------------------------------------------------------------------------
(* BostonConfig *)

Loc(name, words, lat, lon, nb) ==
    [name |-> name, words |-> words, lat |-> lat, lon |-> lon, neighborhood |-> nb]

TRAFFIC_LOCATIONS == <<
    Loc("Downtown Crossing", <<"Downtown", "Crossing">>, 423555, -710604, "Downtown"),
    Loc("Government Center", <<"Government", "Center">>, 423594, -710587, "Downtown"),
    Loc("Financial District", <<"Financial", "District">>, 423583, -710552, "Downtown"),
    Loc("Back Bay Station", <<"Back", "Bay", "Station">>, 423477, -710752, "Back Bay"),
    Loc("Copley Square", <<"Copley", "Square">>, 423495, -710773, "Back Bay"),
    Loc("Tobin Bridge", <<"Tobin", "Bridge">>, 423823, -710370, "North End"),
    Loc("Zakim Bridge", <<"Zakim", "Bridge">>, 423679, -710611, "North End"),
    Loc("Mass Ave Bridge", <<"Mass", "Ave", "Bridge">>, 423530, -710919, "Back Bay"),
    Loc("Longfellow Bridge", <<"Longfellow", "Bridge">>, 423611, -710758, "Beacon Hill"),
    Loc("I-93 South", <<"I-93", "South">>, 423301, -710589, "South End"),
    Loc("I-90 (Mass Pike)", <<"I-90", "(Mass", "Pike)">>, 423467, -710972, "Fenway"),
    Loc("Route 1 North", <<"Route", "1", "North">>, 423756, -710342, "Charlestown"),
    Loc("Harvard Square", <<"Harvard", "Square">>, 423744, -711190, "Cambridge"),
    Loc("Kendall Square", <<"Kendall", "Square">>, 423625, -710861, "Cambridge"),
    Loc("Porter Square", <<"Porter", "Square">>, 423884, -711192, "Cambridge"),
    Loc("Lechmere", <<"Lechmere">>, 423701, -710761, "Cambridge"),
    Loc("Logan Airport", <<"Logan", "Airport">>, 423656, -710096, "East Boston"),
    Loc("Fenway Park", <<"Fenway", "Park">>, 423467, -710972, "Fenway"),
    Loc("TD Garden", <<"TD", "Garden">>, 423662, -710621, "North End"),
    Loc("Brookline Village", <<"Brookline", "Village">>, 423326, -711205, "Brookline"),
    Loc("Newton Centre", <<"Newton", "Centre">>, 423292, -711925, "Newton"),
    Loc("Quincy Center", <<"Quincy", "Center">>, 422519, -710052, "Quincy") >>

\* `word in name` for the substring tests of simulate_traffic_data: in every
\* configured name the tested substring is a whole word
Contains(words, w) == \E k \in 1..Len(words) : words[k] = w

-----------------------------------------------------------------------------
(* Temporal context: datetime fields of self.current_time (UTC) *)

\* 1970-01-01 was a Thursday: datetime.weekday() = 3
Hour(t) == (t \div 3600) % 24
Weekday(t) == ((t \div 86400) + 3) % 7
IsWeekday(t) == Weekday(t) < 5

\* the instants a simulator is constructed at: every hour of the seven days
\* from Monday 1970-01-05 to Sunday 1970-01-11
DaySamples == 4..10
TimeSamples == {d * 86400 + h * 3600 + 754 : d \in DaySamples, h \in 0..23}

\* np.random.seed(int(self.current_time.timestamp()) % 1000)
NpSeed(t) == t % 1000

\* Timestamp taken from the clock again when the record is built, a tick after
\* the simulator was constructed
TimestampNow(t) == t + 1

\* "timestamp": self.current_time, the value every record is stamped with
Timestamp(t) == t

-----------------------------------------------------------------------------
(* simulate_traffic_data *)

\* BaseCongestion with the morning rush bucket written 7 <= hour < 9
BaseCongestionShortRush(hour, is_weekday) ==
    2000 +
    (IF is_weekday
     THEN IF 7 <= hour /\ hour < 9 THEN 5000
          ELSE IF 17 <= hour /\ hour <= 19 THEN 6000
          ELSE IF 10 <= hour /\ hour <= 16 THEN 3000
          ELSE IF 20 <= hour /\ hour <= 22 THEN 2000
          ELSE 0
     ELSE IF 11 <= hour /\ hour <= 15 THEN 3000
          ELSE IF 19 <= hour /\ hour <= 23 THEN 4000
          ELSE 0)

\* base_congestion: the 0.2 floor plus the time-bucket addend
BaseCongestion(hour, is_weekday) ==
    2000 +
    (IF is_weekday
     THEN IF 7 <= hour /\ hour <= 9 THEN 5000
          ELSE IF 17 <= hour /\ hour <= 19 THEN 6000
          ELSE IF 10 <= hour /\ hour <= 16 THEN 3000
          ELSE IF 20 <= hour /\ hour <= 22 THEN 2000
          ELSE 0
     ELSE IF 11 <= hour /\ hour <= 15 THEN 3000
          ELSE IF 19 <= hour /\ hour <= 23 THEN 4000
          ELSE 0)

\* LocationMultiplier with the high-activity test widened to every name that
\* contains 'Square'
LocationMultiplierSquares(loc) ==
    IF Contains(loc.words, "Bridge") THEN 13
    ELSE IF Contains(loc.words, "Square") \/ loc.name = "Downtown Crossing" THEN 12
    ELSE IF Contains(loc.words, "Airport") THEN 11
    ELSE IF loc.neighborhood \in {"Newton", "Brookline", "Quincy"} THEN 8
    ELSE 10

\* location_multiplier, in tenths
LocationMultiplier(loc) ==
    IF Contains(loc.words, "Bridge") THEN 13
    ELSE IF loc.name \in {"Harvard Square", "Kendall Square", "Downtown Crossing"} THEN 12
    ELSE IF Contains(loc.words, "Airport") THEN 11
    ELSE IF loc.neighborhood \in {"Newton", "Brookline", "Quincy"} THEN 8
    ELSE 10

\* Congestion with the min / max clamp left out
CongestionUnclamped(base, mult, noise) ==
    (base * mult) \div 10 + noise

\* congestion before the special-event branch: min(1.0, ...) then max(0.0, ...)
Congestion(base, mult, noise) ==
    Max(0, Min(Scale, (base * mult) \div 10 + noise))

\* the locations whose branch evaluates random.random()
IsVenue(loc) == loc.name \in {"Fenway Park", "TD Garden"}

\* special_event after the if / elif of lines 235-240; u is random.random()
SpecialEvent(loc, u) ==
    IF loc.name = "Fenway Park" /\ u < 1000 THEN "Red Sox Game"
    ELSE IF loc.name = "TD Garden" /\ u < 1000 THEN "Bruins/Celtics Game"
    ELSE "None"

\* EventCongestion with the boost added without the min(1.0, ...) cap
EventCongestionUncapped(loc, u, congestion) ==
    IF SpecialEvent(loc, u) # "None" THEN congestion + 3000 ELSE congestion

\* congestion after the special-event branch
EventCongestion(loc, u, congestion) ==
    IF SpecialEvent(loc, u) # "None" THEN Min(Scale, congestion + 3000) ELSE congestion

\* one iteration of the loop over config.TRAFFIC_LOCATIONS:
\* noise = np.random.normal(0, 0.1), p = np.random.poisson(congestion * 2),
\* u = random.random(), vol = random.randint(500, 3000)
TrafficRecord(loc, t, noise, p, u, vol) ==
    LET base == BaseCongestion(Hour(t), IsWeekday(t))
        congestion == Congestion(base, LocationMultiplier(loc), noise)
        avg_speed == 35 * (Scale - congestion)
        delay_minutes == congestion * 15
    IN  [kind |-> "traffic",
         location |-> loc.name,
         neighborhood |-> loc.neighborhood,
         latitude |-> loc.lat,
         longitude |-> loc.lon,
         congestion_index |-> Round(EventCongestion(loc, u, congestion), 10),
         average_speed_mph |-> Round(avg_speed, 1000),
         incident_count |-> p,
         delay_minutes |-> Round(delay_minutes, 1000),
         timestamp |-> Timestamp(t),
         special_event |-> SpecialEvent(loc, u),
         traffic_volume |-> vol]

\* the iteration's local variables the record is derived from
TrafficLocals(loc, t, noise) ==
    LET base == BaseCongestion(Hour(t), IsWeekday(t))
    IN  [base_congestion |-> base,
         location_multiplier |-> LocationMultiplier(loc),
         noise |-> noise,
         congestion |-> Congestion(base, LocationMultiplier(loc), noise)]

\* the rate handed to np.random.poisson for a location and a noise draw
PoissonRate(loc, t, noise) ==
    2 * Congestion(BaseCongestion(Hour(t), IsWeekday(t)), LocationMultiplier(loc), noise)

VolumeSamples == Samples(500, 3000, CoarseN)

TrafficCall ==
    /\ pc = "idle"
    /\ pc' = "traffic"
    /\ idx' = 1
    /\ rows' = 0
    /\ row' = NoRow
    /\ ret' = NoRet
    /\ locals' = NoLocals
    /\ UNCHANGED <<current_time, runs, probe, main>>

TrafficIteration ==
    /\ pc = "traffic"
    /\ row = NoRow
    /\ idx <= Len(TRAFFIC_LOCATIONS)
    /\ LET loc == TRAFFIC_LOCATIONS[idx]
       IN  \E z \in Range(ZSamples) :
           LET noise == Normal(0, 1000, z)
           IN  \E p \in Range(PoissonSamples(PoissonRate(loc, current_time, noise))) :
               \E u \in (IF IsVenue(loc) THEN Range(RandomSamples) ELSE {0}) :
               \E vol \in Range(VolumeSamples) :
                   /\ row' = TrafficRecord(loc, current_time, noise, p, u, vol)
                   /\ locals' = TrafficLocals(loc, current_time, noise)
    /\ rows' = rows + 1
    /\ UNCHANGED <<current_time, pc, idx, ret, runs, probe, main>>

TrafficNext ==
    /\ pc = "traffic"
    /\ row # NoRow
    /\ idx' = idx + 1
    /\ row' = NoRow
    /\ locals' = NoLocals
    /\ UNCHANGED <<current_time, pc, rows, ret, runs, probe, main>>

TrafficReturn ==
    /\ pc = "traffic"
    /\ row = NoRow
    /\ idx > Len(TRAFFIC_LOCATIONS)
    /\ pc' = "idle"
    /\ ret' = [gen |-> "traffic", status |-> "returned", rows |-> rows]
    /\ UNCHANGED <<current_time, idx, rows, row, locals, runs, probe, main>>

-----------------------------------------------------------------------------
(* simulate_mbta_data *)

Line(name, stations) == [name |-> name, stations |-> stations]

MBTA_LINES == <<
    Line("Red", <<"Braintree", "Quincy Center", "South Station", "Park Street",
                  "Harvard", "Porter", "Alewife">>),
    Line("Orange", <<"Forest Hills", "Back Bay", "Downtown Crossing",
                     "State", "North Station", "Oak Grove">>),
    Line("Blue", <<"Wonderland", "Airport", "Maverick", "State",
                   "Government Center", "Bowdoin">>),
    Line("Green-B", <<"Boston College", "Cleveland Circle", "Kenmore",
                      "Park Street", "Government Center">>),
    Line("Green-C", <<"Cleveland Circle", "Coolidge Corner", "Kenmore",
                      "Park Street", "North Station">>),
    Line("Green-D", <<"Riverside", "Newton Highlands", "Brookline Hills",
                      "Kenmore", "Park Street", "North Station">>),
    Line("Green-E", <<"Heath Street", "Northeastern", "Back Bay",
                      "Park Street", "North Station">>) >>

\* the rush-hour test shared by the transit and air-quality generators
IsRush(hour) == (7 <= hour /\ hour <= 9) \/ (17 <= hour /\ hour <= 19)

\* random.randint bounds of num_vehicles for a line
VehicleRange(line_name) ==
    IF line_name \in {"Red", "Orange"} THEN <<15, 25>>
    ELSE IF line_name = "Blue" THEN <<8, 12>>
    ELSE <<6, 10>>

\* (mean, standard deviation) of np.random.normal for base_delay
DelayParams(hour) ==
    IF IsRush(hour) THEN <<30000, 20000>>
    ELSE IF 10 <= hour /\ hour <= 16 THEN <<10000, 10000>>
    ELSE <<5000, 5000>>

\* delay = max(0, base_delay)
Delay(base_delay) == Max(0, base_delay)

\* the population handed to random.choice for crowding
CrowdingLevels(hour) ==
    IF IsRush(hour)
    THEN <<"MANY_SEATS_AVAILABLE", "FEW_SEATS_AVAILABLE",
           "STANDING_ROOM_ONLY", "CRUSHED_STANDING_ROOM_ONLY">>
    ELSE <<"MANY_SEATS_AVAILABLE", "FEW_SEATS_AVAILABLE", "STANDING_ROOM_ONLY">>

\* random.choice(seq, **kwargs) of the standard library: Random.choice(self, seq)
\* takes no keyword argument, so a call with weights=... raises TypeError
\* (weights belongs to random.choices); otherwise any element of seq
RandomChoice(seq, kwargs) ==
    IF kwargs # {} THEN {"TypeError"} ELSE Range(seq)

\* the dictionary appended to vehicles
VehicleRecord(line, i, t, station, delay, crowding, direction, speed, status) ==
    [kind |-> "vehicle",
     vehicle_id |-> <<line.name, "train", i + 1>>,
     line |-> line.name,
     direction |-> direction,
     current_station |-> station,
     delay_minutes |-> Round(delay, 1000),
     crowding_level |-> crowding,
     speed_mph |-> speed,
     timestamp |-> Timestamp(t),
     status |-> status]

MbtaCall ==
    /\ pc = "idle"
    /\ pc' = "mbta"
    /\ idx' = 1
    /\ rows' = 0
    /\ row' = NoRow
    /\ ret' = NoRet
    /\ locals' = [line |-> "None", num_vehicles |-> 0, i |-> 0]
    /\ UNCHANGED <<current_time, runs, probe, main>>

\* head of the loop over config.MBTA_LINES.items(): draw num_vehicles
MbtaLine ==
    /\ pc = "mbta"
    /\ locals.i = locals.num_vehicles
    /\ idx <= Len(MBTA_LINES)
    /\ LET r == VehicleRange(MBTA_LINES[idx].name)
       IN  \E n \in Range(Samples(r[1], r[2], CoarseN)) :
               locals' = [line |-> MBTA_LINES[idx].name, num_vehicles |-> n, i |-> 0]
    /\ idx' = idx + 1
    /\ row' = NoRow
    /\ UNCHANGED <<current_time, pc, rows, ret, runs, probe, main>>

\* one iteration of `for i in range(num_vehicles)`, up to the append or the raise;
\* after the last vehicle of the last line the generator returns
MbtaVehicle ==
    /\ pc = "mbta"
    /\ locals.i < locals.num_vehicles
    /\ LET line == MBTA_LINES[idx - 1]
           hour == Hour(current_time)
           par == DelayParams(hour)
       IN  \E station \in RandomChoice(line.stations, {}) :
           \E z \in Range(ZSamples) :
           \E crowding \in RandomChoice(CrowdingLevels(hour), {"weights"}) :
           \E direction \in RandomChoice(<<"Inbound", "Outbound">>, {}) :
           \E speed \in Range(Samples(15 * Scale, 35 * Scale, CoarseN)) :
           \E status \in RandomChoice(<<"On Time", "Delayed", "Approaching">>, {"weights"}) :
               LET base_delay == Normal(par[1], par[2], z)
                   delay == Delay(base_delay)
                   drawn == [line |-> line.name, num_vehicles |-> locals.num_vehicles,
                             i |-> locals.i, current_station |-> station,
                             base_delay |-> base_delay, delay |-> delay]
                   last == locals.i + 1 = locals.num_vehicles /\ idx > Len(MBTA_LINES)
               IN  IF crowding = "TypeError" \/ status = "TypeError"
                   THEN /\ pc' = "idle"
                        /\ ret' = [gen |-> "mbta", status |-> "TypeError", rows |-> rows]
                        /\ locals' = drawn
                        /\ UNCHANGED <<rows, row>>
                   ELSE /\ row' = VehicleRecord(line, locals.i, current_time, station,
                                                delay, crowding, direction, speed, status)
                        /\ rows' = rows + 1
                        /\ locals' = [drawn EXCEPT !.i = locals.i + 1]
                        /\ pc' = IF last THEN "idle" ELSE "mbta"
                        /\ ret' = IF last
                                  THEN [gen |-> "mbta", status |-> "returned",
                                        rows |-> rows + 1]
                                  ELSE ret
    /\ UNCHANGED <<current_time, idx, runs, probe, main>>

-----------------------------------------------------------------------------
(* simulate_air_quality_data *)

Station(name, lat, lon, type) == [name |-> name, lat |-> lat, lon |-> lon, type |-> type]

AQI_STATIONS == <<
    Station("Boston Common", 423549, -710649, "urban_park"),
    Station("Harvard University", 423770, -711167, "institutional"),
    Station("Logan Airport", 423656, -710096, "transportation"),
    Station("I-93 Corridor", 423301, -710589, "highway"),
    Station("Financial District", 423583, -710552, "business"),
    Station("Cambridge Riverside", 423601, -710942, "residential"),
    Station("Brookline Hills", 423319, -711289, "suburban"),
    Station("Quincy Adams", 422331, -710070, "suburban") >>

\* the station lists the generator is run over: the shipped one, the shipped one
\* extended by a station whose type is not a key of the base table, and the
\* shipped one extended by a station dictionary that has no "type" key
StationConfigs ==
    {AQI_STATIONS,
     Append(AQI_STATIONS, Station("Seaport", 423519, -710446, "industrial")),
     Append(AQI_STATIONS, [name |-> "Harbor Islands", lat |-> 423197, lon |-> -709289])}

\* station["type"]: the subscript of lines 272 and 310, which raises KeyError
\* when the dictionary has no such key
StationType(station) ==
    IF "type" \in DOMAIN station THEN station.type ELSE "KeyError"

\* {...}.get(station["type"], 50)
BaseAqi(type) ==
    CASE type = "urban_park" -> 40
      [] type = "suburban" -> 35
      [] type = "residential" -> 45
      [] type = "business" -> 55
      [] type = "highway" -> 65
      [] type = "transportation" -> 70
      [] type = "institutional" -> 40
      [] OTHER -> 50

Weather(condition, modifier) == [condition |-> condition, modifier |-> modifier]

WeatherTable == <<
    Weather("Clear", 0),
    Weather("Partly Cloudy", 5),
    Weather("Overcast", 10),
    Weather("Light Rain", -15),
    Weather("Windy", -10) >>

\* BoostSamples with the addend drawn at every hour, the rush-hour test left out
BoostSamplesAllDay(hour) == Range(Samples(10, 25, GridN))

\* the rush-hour addend: random.randint(10, 25) inside the rush buckets, else none
BoostSamples(hour) == IF IsRush(hour) THEN Range(Samples(10, 25, GridN)) ELSE {0}

\* Aqi with the clamp left out and the weather modifier applied as a factor
AqiUnclamped(base_aqi, modifier, jitter) == base_aqi * modifier + jitter

\* aqi = max(0, min(300, base_aqi + modifier + randint(-10, 15)))
Aqi(base_aqi, modifier, jitter) == Max(0, Min(300, base_aqi + modifier + jitter))

\* AqiCategory with every breakpoint compared by < instead of <=
AqiCategoryStrict(aqi) ==
    IF aqi < 50 THEN <<"Good", "green">>
    ELSE IF aqi < 100 THEN <<"Moderate", "yellow">>
    ELSE IF aqi < 150 THEN <<"Unhealthy for Sensitive Groups", "orange">>
    ELSE IF aqi < 200 THEN <<"Unhealthy", "red">>
    ELSE <<"Very Unhealthy", "purple">>

\* the if / elif chain of lines 291-300: <<category, color>>
AqiCategory(aqi) ==
    IF aqi <= 50 THEN <<"Good", "green">>
    ELSE IF aqi <= 100 THEN <<"Moderate", "yellow">>
    ELSE IF aqi <= 150 THEN <<"Unhealthy for Sensitive Groups", "orange">>
    ELSE IF aqi <= 200 THEN <<"Unhealthy", "red">>
    ELSE <<"Very Unhealthy", "purple">>

\* one iteration of the loop over config.AQI_STATIONS; n25, n10, no2, o3 are the
\* random.uniform draws of the pollutant lines
AqiRecord(station, t, boost, weather, jitter, n25, n10, no2, o3) ==
    LET aqi == Aqi(BaseAqi(StationType(station)) + boost, weather.modifier, jitter)
        band == AqiCategory(aqi)
    IN  [kind |-> "aqi",
         station |-> station.name,
         station_type |-> StationType(station),
         latitude |-> station.lat,
         longitude |-> station.lon,
         aqi |-> aqi,
         category |-> band[1],
         color |-> band[2],
         pm25 |-> Round(aqi * 4000 + n25, 1000),
         pm10 |-> Round(aqi * 7000 + n10, 1000),
         no2 |-> Round(no2, 1000),
         o3 |-> Round(o3, 1000),
         weather_condition |-> weather.condition,
         timestamp |-> Timestamp(t)]

AirCall ==
    /\ pc = "idle"
    /\ pc' = "air"
    /\ idx' = 1
    /\ rows' = 0
    /\ row' = NoRow
    /\ ret' = NoRet
    /\ \E cfg \in StationConfigs : locals' = [stations |-> cfg]
    /\ UNCHANGED <<current_time, runs, probe, main>>

AirIteration ==
    /\ pc = "air"
    /\ row = NoRow
    /\ idx <= Len(locals.stations)
    /\ LET station == locals.stations[idx]
       IN  IF StationType(station) = "KeyError"
           THEN /\ pc' = "idle"
                /\ ret' = [gen |-> "air", status |-> "KeyError", rows |-> rows]
                /\ UNCHANGED <<row, rows, locals>>
           ELSE /\ \E boost \in BoostSamples(Hour(current_time)) :
                   \E w \in 1..Len(WeatherTable) :
                   \E jitter \in Range(Samples(-10, 15, GridN)) :
                   \E k \in 1..(CoarseN + 1) :
                       LET n25 == Samples(-5 * Scale, 5 * Scale, CoarseN)[k]
                           n10 == Samples(-8 * Scale, 8 * Scale, CoarseN)[CoarseN + 2 - k]
                           no2 == Samples(10 * Scale, 50 * Scale, CoarseN)[k]
                           o3 == Samples(15 * Scale, 80 * Scale, CoarseN)[CoarseN + 2 - k]
                       IN  /\ row' = AqiRecord(station, current_time, boost,
                                                WeatherTable[w], jitter, n25, n10, no2, o3)
                           /\ locals' = [stations |-> locals.stations,
                                         base_aqi |-> BaseAqi(StationType(station)),
                                         sum |-> BaseAqi(StationType(station)) + boost
                                                     + WeatherTable[w].modifier + jitter]
                /\ rows' = rows + 1
                /\ UNCHANGED <<pc, ret>>
    /\ UNCHANGED <<current_time, idx, runs, probe, main>>

AirNext ==
    /\ pc = "air"
    /\ row # NoRow
    /\ idx' = idx + 1
    /\ row' = NoRow
    /\ locals' = [stations |-> locals.stations]
    /\ UNCHANGED <<current_time, pc, rows, ret, runs, probe, main>>

AirReturn ==
    /\ pc = "air"
    /\ row = NoRow
    /\ idx > Len(locals.stations)
    /\ pc' = "idle"
    /\ ret' = [gen |-> "air", status |-> "returned", rows |-> rows]
    /\ UNCHANGED <<current_time, idx, rows, row, locals, runs, probe, main>>

-----------------------------------------------------------------------------
(* simulate_energy_data *)

\* base_load, MW
BaseLoad == 2500

\* DemandMultiplier with the weekday off-peak value taken from the weekend's
\* last branch
DemandMultiplierOffPeak(hour, is_weekday) ==
    IF is_weekday
    THEN IF 8 <= hour /\ hour <= 18 THEN 13000
         ELSE IF (6 <= hour /\ hour <= 8) \/ (18 <= hour /\ hour <= 22) THEN 14000
         ELSE 9000
    ELSE IF 10 <= hour /\ hour <= 16 THEN 11000
         ELSE IF 18 <= hour /\ hour <= 23 THEN 12000
         ELSE 9000

\* demand_multiplier selected by the if / elif chains of lines 335-348
DemandMultiplier(hour, is_weekday) ==
    IF is_weekday
    THEN IF 8 <= hour /\ hour <= 18 THEN 13000
         ELSE IF (6 <= hour /\ hour <= 8) \/ (18 <= hour /\ hour <= 22) THEN 14000
         ELSE 8000
    ELSE IF 10 <= hour /\ hour <= 16 THEN 11000
         ELSE IF 18 <= hour /\ hour <= 23 THEN 12000
         ELSE 9000

\* the heating / cooling addend for temp (Celsius)
WeatherAdjust(temp) ==
    IF temp > 27 * Scale THEN 2000
    ELSE IF temp < 5 * Scale THEN 1500
    ELSE 0

\* OtherPct with gas_pct missing from the subtracted sum
OtherPctNoGas(renewable_pct, nuclear_pct, gas_pct) ==
    Scale - (renewable_pct + nuclear_pct)

\* other_pct = 1 - (renewable_pct + nuclear_pct + gas_pct)
OtherPct(renewable_pct, nuclear_pct, gas_pct) ==
    Scale - (renewable_pct + nuclear_pct + gas_pct)

\* the dictionary returned by simulate_energy_data
EnergySnapshot(t, temp, noise, renewable_pct, nuclear_pct, gas_pct, jitter, outages) ==
    LET demand_multiplier == DemandMultiplier(Hour(t), IsWeekday(t)) + WeatherAdjust(temp)
        total_demand == BaseLoad * demand_multiplier + noise
        other_pct == OtherPct(renewable_pct, nuclear_pct, gas_pct)
    IN  [kind |-> "energy",
         total_demand_mw |-> Round(total_demand, 1000),
         renewable_percentage |-> Round(renewable_pct, 10),
         nuclear_percentage |-> Round(nuclear_pct, 10),
         natural_gas_percentage |-> Round(gas_pct, 10),
         other_percentage |-> Round(other_pct, 10),
         grid_frequency |-> Round(60 * Scale + jitter, 10),
         peak_load_ratio |-> 10 * RoundHE(2 * total_demand, 3 * BaseLoad * 10),
         outage_count |-> outages,
         temperature_f |-> 1000 * RoundHE(9 * temp + 160 * Scale, 5000)]

\* the locals the dictionary is computed from: demand_multiplier as the if /
\* elif chains leave it (base_multiplier) and after the weather branch, temp,
\* and total_demand before rounding
EnergyLocals(t, temp, noise) ==
    LET base_multiplier == DemandMultiplier(Hour(t), IsWeekday(t))
        demand_multiplier == base_multiplier + WeatherAdjust(temp)
    IN  [line |-> "None",
         base_multiplier |-> base_multiplier,
         demand_multiplier |-> demand_multiplier,
         temp |-> temp,
         total_demand |-> BaseLoad * demand_multiplier + noise]

\* TempSamples for a draw of temp from a range that reaches below the cold-day
\* threshold: random.uniform(-5, 30)
TempSamplesCold == Samples(-5 * Scale, 30 * Scale, GridN)

\* temp = random.uniform(15, 30), Celsius
TempSamples == Samples(15 * Scale, 30 * Scale, GridN)

EnergyCall ==
    /\ pc = "idle"
    /\ pc' = "energy"
    /\ idx' = 0
    /\ rows' = 0
    /\ row' = NoRow
    /\ ret' = NoRet
    /\ locals' = NoLocals
    /\ UNCHANGED <<current_time, runs, probe, main>>

\* the straight-line body, from the first draw to the return
EnergyBody ==
    /\ pc = "energy"
    /\ \E temp \in Range(TempSamples) :
       \E renewable_pct \in Range(Samples(2500, 4000, GridN)) :
       \E nuclear_pct \in Range(Samples(2000, 3000, GridN)) :
       \E gas_pct \in Range(Samples(3500, 4500, GridN)) :
       \E k \in 1..(CoarseN + 1) :
           LET noise == Samples(-100 * Scale, 100 * Scale, CoarseN)[k]
               jitter == Samples(-500, 500, CoarseN)[CoarseN + 2 - k]
               outages == Samples(0, 5, CoarseN)[k]
           IN  /\ row' = EnergySnapshot(current_time, temp, noise, renewable_pct,
                                        nuclear_pct, gas_pct, jitter, outages)
               /\ locals' = EnergyLocals(current_time, temp, noise)
    /\ rows' = 1
    /\ pc' = "idle"
    /\ ret' = [gen |-> "energy", status |-> "returned", rows |-> 1]
    /\ UNCHANGED <<current_time, idx, runs, probe, main>>

-----------------------------------------------------------------------------
(* BostonDataSimulator.__init__ and the invocations of its generators *)

Init ==
    /\ current_time \in TimeSamples
    /\ pc = "idle"
    /\ idx = 0
    /\ rows = 0
    /\ row = NoRow
    /\ locals = NoLocals
    /\ ret = NoRet
    /\ runs = NoRuns
    /\ probe = NoProbe
    /\ main = NoMain

Next ==
    \/ TrafficCall
    \/ TrafficIteration
    \/ TrafficNext
    \/ TrafficReturn
    \/ MbtaCall
    \/ MbtaLine
    \/ MbtaVehicle
    \/ AirCall
    \/ AirIteration
    \/ AirNext
    \/ AirReturn
    \/ EnergyCall
    \/ EnergyBody

Spec == Init /\ [][Next]_vars

-----------------------------------------------------------------------------
(* The band classification applied to every aqi of its domain *)

\* the if / elif chain of lines 291-300 run on a given aqi, from a freshly
\* constructed simulator
Classify ==
    /\ pc = "idle"
    /\ ret = NoRet
    /\ pc' = "classified"
    /\ \E a \in 0..300 :
           probe' = [aqi |-> a, category |-> AqiCategory(a)[1], color |-> AqiCategory(a)[2]]
    /\ UNCHANGED <<current_time, idx, rows, row, locals, ret, runs, main>>

NextBands ==
    \/ Next
    \/ Classify

SpecBands == Init /\ [][NextBands]_vars

-----------------------------------------------------------------------------
(* Two simulators constructed at the same instant, each running               *)
(* simulate_traffic_data: numpy's generator is seeded by __init__, the         *)
(* interpreter's `random` generator is never seeded by the program and starts  *)
(* from whatever state the process gave it.                                    *)

\* a deterministic generator: its next state, and the sample its state selects
RngNext(s) == (s * 421 + 17) % 1009
RngPick(s, seq) == seq[1 + (s % Len(seq))]

\* one iteration of the traffic loop with every draw taken from the generator
\* the source takes it from: np.random (normal, poisson) or random (random, randint)
DetIteration(sim, loc, t) ==
    LET np1 == RngNext(sim.np)
        noise == Normal(0, 1000, RngPick(np1, ZSamples))
        np2 == RngNext(np1)
        p == RngPick(np2, PoissonSamples(PoissonRate(loc, t, noise)))
        py1 == IF IsVenue(loc) THEN RngNext(sim.py) ELSE sim.py
        u == IF IsVenue(loc) THEN RngPick(py1, RandomSamples) ELSE 0
        py2 == RngNext(py1)
        vol == RngPick(py2, VolumeSamples)
    IN  [np |-> np2, py |-> py2, row |-> TrafficRecord(loc, t, noise, p, u, vol)]

InitDet ==
    /\ current_time \in TimeSamples
    /\ pc = "idle"
    /\ idx = 0
    /\ rows = 0
    /\ row = NoRow
    /\ locals = NoLocals
    /\ ret = NoRet
    /\ probe = NoProbe
    /\ main = NoMain
    /\ \E s1 \in 0..(PySeeds - 1) : \E s2 \in 0..(PySeeds - 1) :
           runs = [idx |-> 0,
                   sim |-> << [np |-> NpSeed(current_time), py |-> s1, row |-> NoRow],
                              [np |-> NpSeed(current_time), py |-> s2, row |-> NoRow] >>]

\* both runs produce their record for the next location
DetStep ==
    /\ runs.idx < Len(TRAFFIC_LOCATIONS)
    /\ runs' = [idx |-> runs.idx + 1,
                sim |-> [i \in 1..2 |->
                            DetIteration(runs.sim[i], TRAFFIC_LOCATIONS[runs.idx + 1],
                                         current_time)]]
    /\ UNCHANGED <<current_time, pc, idx, rows, row, locals, ret, probe, main>>

SpecDet == InitDet /\ [][DetStep]_vars

-----------------------------------------------------------------------------
(* Properties *)

\* C1: every invocation of each of the four generators, at every hour and on
\* either kind of day, ends by returning its record collection; none ends in
\* an error.
C1_EveryInvocationReturns ==
    pc = "idle" => ret.status \in {"none", "returned"}

\* C2: every traffic record has 0 <= congestion_index <= 1,
\* average_speed_mph >= 0, incident_count >= 0 and
\* 500 <= traffic_volume <= 3000.
C2_TrafficRanges ==
    row.kind = "traffic" =>
        /\ 0 <= row.congestion_index /\ row.congestion_index <= Scale
        /\ row.average_speed_mph >= 0
        /\ row.incident_count >= 0
        /\ 500 <= row.traffic_volume /\ row.traffic_volume <= 3000

\* a venue record whose event boost was cut at 1.0
C2_Witness ==
    /\ row.kind = "traffic"
    /\ row.special_event = "Red Sox Game"
    /\ row.congestion_index = Scale
    /\ locals.congestion < Scale
    /\ row.traffic_volume = 3000

C3Reduced == {"MANY_SEATS_AVAILABLE", "FEW_SEATS_AVAILABLE", "STANDING_ROOM_ONLY"}

\* C3: every vehicle the transit generator makes its draws for becomes a
\* record whose crowding_level is one of the three least crowded levels when
\* the hour is outside the rush buckets 7-9 and 17-19, and may be
\* CRUSHED_STANDING_ROOM_ONLY only inside them.
C3_CrowdingByRushBucket ==
    "current_station" \in DOMAIN locals =>
        /\ row.kind = "vehicle"
        /\ row.crowding_level \in
               C3Reduced \cup
               (IF Hour(current_time) \in (7..9) \cup (17..19)
                THEN {"CRUSHED_STANDING_ROOM_ONLY"} ELSE {})

\* the (mean, spread) the claim gives for an hour, in units of 1/Scale minutes
C4Params(hour) ==
    IF hour \in (7..9) \cup (17..19) THEN <<3 * Scale, 2 * Scale>>
    ELSE IF hour \in 10..16 THEN <<Scale, Scale>>
    ELSE <<Scale \div 2, Scale \div 2>>

\* C4: every vehicle the transit generator draws a delay for is produced with
\* delay_minutes = max(0, d) >= 0 (to one decimal), d drawn with the mean and
\* spread the hour selects: (3, 2) in 7-9 and 17-19, (1, 1) in 10-16,
\* (0.5, 0.5) otherwise.
C4_DelayFlooredByHour ==
    "delay" \in DOMAIN locals =>
        /\ row.kind = "vehicle"
        /\ row.delay_minutes >= 0
        /\ \E z \in Range(ZSamples) :
               LET par == C4Params(Hour(current_time))
                   d == par[1] + (par[2] * z) \div 1000
               IN  row.delay_minutes = Round(IF d > 0 THEN d ELSE 0, 1000)

\* C5: every air-quality record has an integer aqi with 0 <= aqi <= 300, for
\* stations of tabulated and of untabulated type.
C5_AqiRange ==
    row.kind = "aqi" => row.aqi \in 0..300

\* a rush-hour record of the station whose type is not tabulated
C5_Witness ==
    /\ row.kind = "aqi"
    /\ row.station_type = "industrial"
    /\ row.aqi = 100

\* the breakpoints as the claim states them
C6Bands == <<
    [lo |-> 0, hi |-> 50, pair |-> <<"Good", "green">>],
    [lo |-> 51, hi |-> 100, pair |-> <<"Moderate", "yellow">>],
    [lo |-> 101, hi |-> 150, pair |-> <<"Unhealthy for Sensitive Groups", "orange">>],
    [lo |-> 151, hi |-> 200, pair |-> <<"Unhealthy", "red">>],
    [lo |-> 201, hi |-> 300, pair |-> <<"Very Unhealthy", "purple">>] >>

C6Matching(a) == {k \in 1..Len(C6Bands) : C6Bands[k].lo <= a /\ a <= C6Bands[k].hi}

C6Agrees(r) ==
    /\ Cardinality(C6Matching(r.aqi)) = 1
    /\ \A k \in C6Matching(r.aqi) : C6Bands[k].pair = <<r.category, r.color>>

\* C6: the (category, color) pair of an air-quality record, and of the
\* classification of any aqi in 0..300, is the pair of the one band of the
\* breakpoint table that holds the aqi.
C6_CategoryByBreakpoints ==
    /\ row.kind = "aqi" => C6Agrees(row)
    /\ pc = "classified" => C6Agrees(probe)

\* a generated record with the claim's example value 120
C6_Witness ==
    /\ row.kind = "aqi"
    /\ row.aqi = 120
    /\ row.category = "Unhealthy for Sensitive Groups"
    /\ row.color = "orange"

C7MixSum(r) ==
    r.renewable_percentage + r.nuclear_percentage
        + r.natural_gas_percentage + r.other_percentage

\* C7: in every energy snapshot the four rounded shares sum to 1 within 0.002.
C7_MixSumsToOne ==
    row.kind = "energy" =>
        /\ C7MixSum(row) - Scale <= 20
        /\ Scale - C7MixSum(row) <= 20

\* a snapshot whose rounded shares do not sum to exactly 1
C7_Witness ==
    /\ row.kind = "energy"
    /\ C7MixSum(row) # Scale
    /\ row.other_percentage < 0

\* C8: no energy snapshot has a negative other share; all four shares lie in
\* [0, 1].
C8_SharesWithinUnit ==
    row.kind = "energy" =>
        \A share \in {row.renewable_percentage, row.nuclear_percentage,
                      row.natural_gas_percentage, row.other_percentage} :
            0 <= share /\ share <= Scale

\* C9: two simulators constructed at the same instant, hence with the same
\* seed, that run the traffic generator produce identical records.
C9_SameSeedSameRecords ==
    runs # NoRuns => runs.sim[1].row = runs.sim[2].row

\* the addend of the time-bucket table as the claim states it
C10Addend(hour, weekday) ==
    IF weekday \in 0..4
    THEN CASE hour \in 7..9 -> 5000
           [] hour \in 17..19 -> 6000
           [] hour \in 10..16 -> 3000
           [] hour \in 20..22 -> 2000
           [] OTHER -> 0
    ELSE CASE hour \in 11..15 -> 3000
           [] hour \in 19..23 -> 4000
           [] OTHER -> 0

\* C10: the traffic base congestion of every location of one generation is the
\* 0.2 floor plus the one addend the table gives for the simulator's hour and
\* kind of day.
C10_BaseCongestionTable ==
    "base_congestion" \in DOMAIN locals =>
        locals.base_congestion =
            2000 + C10Addend(Hour(current_time), Weekday(current_time))

\* the last location of a weekday 8 o'clock generation, with the +0.5 addend
C10_Witness ==
    /\ Hour(current_time) = 8
    /\ Weekday(current_time) = 2
    /\ row.kind = "traffic"
    /\ row.location = "Quincy Center"
    /\ locals.base_congestion = 7000

\* the seven station types the base table of lines 262-270 has a key for
C11Tabulated ==
    {"urban_park", "suburban", "residential", "business", "highway",
     "transportation", "institutional"}

\* C11: the base-value lookup never fails on the station type: for a station
\* whose type is not tabulated, or that has no type at all, the base value is the
\* default 50 and a complete air-quality record is still produced, so the
\* generator returns one record per station.
C11_TypeLookupNeverFails ==
    /\ ret.gen = "air" => (ret.status = "returned" /\ ret.rows = Len(locals.stations))
    /\ (pc = "air" /\ row # NoRow /\ row.station_type \notin C11Tabulated) =>
           (locals.base_aqi = 50 /\ row.kind = "aqi" /\ row.aqi \in 0..300)

\* the part of C11 that the code does meet: a type that is present but not
\* tabulated gets the default 50 and a record
C11UnknownTypeDefaults ==
    (pc = "air" /\ row # NoRow /\ row.station_type \notin C11Tabulated) =>
        (locals.base_aqi = 50 /\ row.kind = "aqi" /\ row.station_type = "industrial")

-----------------------------------------------------------------------------
(* The ratios the display functions take over the vehicle collection *)

\* largest vehicle collection handed to the ratios
MaxFleet == 2

\* pd.DataFrame(vehicles): a list of dictionaries gives one column per key, and
\* the empty list gives a frame with no column at all
DataFrame(vehicles) ==
    [columns |-> IF vehicles = <<>> THEN {} ELSE {"delay_minutes", "crowding_level"},
     rows |-> vehicles]

\* the vehicles a collection is made of, by the two fields the ratios read
FleetVehicles ==
    {[delay_minutes |-> d, crowding_level |-> c] :
        d \in {0, 2 * Scale, 2 * Scale + 1000},
        c \in {"MANY_SEATS_AVAILABLE", "STANDING_ROOM_ONLY", "CRUSHED_STANDING_ROOM_ONLY"}}

Fleets == UNION {[1..n -> FleetVehicles] : n \in 0..MaxFleet}

\* len(mbta_data[mbta_data['delay_minutes'] <= 2])
OnTimeCount(frame) ==
    Cardinality({i \in 1..Len(frame.rows) : frame.rows[i].delay_minutes <= 2 * Scale})

\* len(mbta_data[mbta_data['crowding_level'].str.contains('STANDING')])
StandingCount(frame) ==
    Cardinality({i \in 1..Len(frame.rows) :
        frame.rows[i].crowding_level \in {"STANDING_ROOM_ONLY", "CRUSHED_STANDING_ROOM_ONLY"}})

\* count / len(mbta_data), after the column subscript that yields count: the
\* subscript raises KeyError on a missing column, the division raises
\* ZeroDivisionError on a frame without rows
FleetRatio(frame, column, count) ==
    IF column \notin frame.columns THEN [raised |-> "KeyError", value |-> 0]
    ELSE IF Len(frame.rows) = 0 THEN [raised |-> "ZeroDivisionError", value |-> 0]
    ELSE [raised |-> "None", value |-> (Scale * count) \div Len(frame.rows)]

\* display_overview, line 514: on_time_pct
OverviewOnTime ==
    /\ pc = "idle"
    /\ probe # NoProbe
    /\ pc' = "display_overview"
    /\ probe' = [probe EXCEPT !.ratio =
                    FleetRatio(probe.mbta_data, "delay_minutes", OnTimeCount(probe.mbta_data))]
    /\ UNCHANGED <<current_time, idx, rows, row, locals, ret, runs, main>>

\* display_mbta_analysis, lines 645-651: on_time / total_vehicles
MbtaAnalysisOnTime ==
    /\ pc = "idle"
    /\ probe # NoProbe
    /\ pc' = "display_mbta_analysis"
    /\ probe' = [probe EXCEPT !.ratio =
                    FleetRatio(probe.mbta_data, "delay_minutes", OnTimeCount(probe.mbta_data))]
    /\ UNCHANGED <<current_time, idx, rows, row, locals, ret, runs, main>>

\* display_advanced_analytics, line 872: crowded_pct
AnalyticsCrowded ==
    /\ pc = "idle"
    /\ probe # NoProbe
    /\ pc' = "display_advanced_analytics"
    /\ probe' = [probe EXCEPT !.ratio =
                    FleetRatio(probe.mbta_data, "crowding_level", StandingCount(probe.mbta_data))]
    /\ UNCHANGED <<current_time, idx, rows, row, locals, ret, runs, main>>

\* a simulator, and a vehicle collection of any size from none to MaxFleet
InitFleet ==
    /\ current_time \in TimeSamples
    /\ pc = "idle"
    /\ idx = 0
    /\ rows = 0
    /\ row = NoRow
    /\ locals = NoLocals
    /\ ret = NoRet
    /\ runs = NoRuns
    /\ main = NoMain
    /\ \E vehicles \in Fleets : probe = [mbta_data |-> DataFrame(vehicles), ratio |-> [raised |-> "None", value |-> -1]]

NextFleet ==
    \/ OverviewOnTime
    \/ MbtaAnalysisOnTime
    \/ AnalyticsCrowded

SpecFleet == InitFleet /\ [][NextFleet]_vars

\* C12: a ratio taken over the vehicle collection (the on-time share, the
\* standing-room share) never fails on a collection without vehicles: it is a
\* share between 0 and 1 (a sentinel share when there is no vehicle), never an
\* error.
C12_RatioOnEmptyFleet ==
    pc \in {"display_overview", "display_mbta_analysis", "display_advanced_analytics"} =>
        (probe.ratio.raised = "None" /\ probe.ratio.value \in 0..Scale)

\* the ratios are shares between 0 and 1 whenever the collection has a vehicle
C12RatioOnVehicles ==
    (pc \in {"display_overview", "display_mbta_analysis", "display_advanced_analytics"}
        /\ Len(probe.mbta_data.rows) > 0) =>
            (probe.ratio.raised = "None" /\ probe.ratio.value \in 0..Scale)

\* C13: no step of any generator changes the simulator's current_time (nor the
\* station list the air-quality generator iterates, the configuration being
\* read only), and every record a generator builds is stamped with that one
\* current_time, so all records of one simulator carry the same timestamp.
C13_GeneratorsLeaveTimeAndConfig ==
    [][/\ current_time' = current_time
       /\ (pc = "air" /\ pc' = "air") => locals'.stations = locals.stations
       /\ row'.kind \in {"traffic", "vehicle", "aqi"} => row'.timestamp = current_time]_vars

\* the eighth air-quality record of an invocation carries the simulator's time
C13_Witness ==
    /\ pc = "air"
    /\ idx = 8
    /\ row.kind = "aqi"
    /\ row.timestamp = current_time
    /\ Hour(current_time) = 17

\* the derived fields of a traffic record r agree with the congestion_index it
\* stores, within the 0.1 that rounding to one decimal allows; a rate of 0 draws
\* no incident
C14Consistent(r) ==
    /\ r.average_speed_mph - 35 * (Scale - r.congestion_index) \in -1000..1000
    /\ r.delay_minutes - 15 * r.congestion_index \in -1000..1000
    /\ r.congestion_index = 0 => r.incident_count = 0

\* C14: in every traffic record the derived fields are consistent with the
\* congestion_index of that same record: average_speed_mph is 35 * (1 -
\* congestion_index) and delay_minutes is 15 * congestion_index up to the output
\* rounding, and incident_count is drawn with rate 2 * congestion_index; also in
\* the Fenway Park and TD Garden records whose special event is active.
C14_DerivedFromStoredCongestion ==
    row.kind = "traffic" => C14Consistent(row)

\* the derived fields agree with the stored congestion_index in every record
\* without an active special event
C14ConsistentWithoutEvent ==
    (row.kind = "traffic" /\ row.special_event = "None") => C14Consistent(row)

\* the multiplier (in tenths) the first matching rule gives a location of the
\* shipped list, by its name and neighborhood
C15Multiplier(name, neighborhood) ==
    IF name \in {"Tobin Bridge", "Zakim Bridge", "Mass Ave Bridge", "Longfellow Bridge"}
    THEN 13
    ELSE IF name \in {"Harvard Square", "Kendall Square", "Downtown Crossing"} THEN 12
    ELSE IF name = "Logan Airport" THEN 11
    ELSE IF neighborhood \in {"Newton", "Brookline", "Quincy"} THEN 8
    ELSE 10

\* C15: each location gets exactly one multiplier, by first match: a name
\* containing 'Bridge' 1.3; Harvard Square, Kendall Square, Downtown Crossing
\* 1.2; a name containing 'Airport' 1.1; the neighborhoods Newton, Brookline,
\* Quincy 0.8; otherwise 1.0. The congestion before any special-event boost is
\* base_congestion * multiplier + noise clamped to [0, 1].
C15_MultiplierAndClamp ==
    row.kind = "traffic" =>
        LET raw == (locals.base_congestion * locals.location_multiplier) \div 10
                       + locals.noise
        IN  /\ locals.location_multiplier = C15Multiplier(row.location, row.neighborhood)
            /\ locals.congestion = (IF raw < 0 THEN 0 ELSE IF raw > Scale THEN Scale ELSE raw)

\* a record of Harvard Square, multiplier 1.2, whose sum exceeds 1 and is clamped
C15_Witness ==
    /\ row.kind = "traffic"
    /\ row.location = "Harvard Square"
    /\ locals.location_multiplier = 12
    /\ (locals.base_congestion * 12) \div 10 + locals.noise > Scale
    /\ locals.congestion = Scale

\* C16: a traffic record has a special_event tag only at Fenway Park ('Red Sox
\* Game') and at TD Garden ('Bruins/Celtics Game'); every other location has
\* none. With the event active the stored congestion is the computed one raised
\* by at most 0.3 and still at most 1.0; without it, the computed one unchanged.
C16_EventOnlyAtVenues ==
    row.kind = "traffic" =>
        /\ row.special_event # "None" =>
               \/ (row.location = "Fenway Park" /\ row.special_event = "Red Sox Game")
               \/ (row.location = "TD Garden" /\ row.special_event = "Bruins/Celtics Game")
        /\ row.special_event # "None" =>
               /\ row.congestion_index >= Round(locals.congestion, 10)
               /\ row.congestion_index <= Round(locals.congestion + 3000, 10)
               /\ row.congestion_index <= Scale
        /\ row.special_event = "None" => row.congestion_index = Round(locals.congestion, 10)

\* TD Garden with its event active and a congestion the boost takes to the cap
C16_Witness ==
    /\ row.kind = "traffic"
    /\ row.location = "TD Garden"
    /\ row.special_event = "Bruins/Celtics Game"
    /\ locals.congestion > 7000
    /\ locals.congestion < Scale
    /\ row.congestion_index = Scale

\* the range of the number of vehicles of a line
C17Range(line_name) ==
    IF line_name \in {"Red", "Orange"} THEN 15..25
    ELSE IF line_name = "Blue" THEN 8..12
    ELSE 6..10

\* the names of the configured lines
C17Lines == {MBTA_LINES[k].name : k \in 1..Len(MBTA_LINES)}

\* the number of vehicles drawn for a line lies in the line's range, and the
\* station drawn for a vehicle is one of its line's stations
C17DrawsInRange ==
    (pc = "mbta" \/ ret.gen = "mbta") /\ locals.line # "None" =>
        /\ locals.line \in C17Lines
        /\ locals.num_vehicles \in C17Range(locals.line)
        /\ "current_station" \in DOMAIN locals =>
               \E k \in 1..Len(MBTA_LINES) :
                   /\ MBTA_LINES[k].name = locals.line
                   /\ locals.current_station \in Range(MBTA_LINES[k].stations)

\* C17: for every line the number of vehicle records of one generation lies in
\* the line's range (Red and Orange 15..25, Blue 8..12, each Green branch
\* 6..10), every record's line is configured and its current_station is one of
\* that line's stations; so the returned collection is never empty and holds
\* between 62 and 102 vehicles.
C17_FleetSizeInRange ==
    /\ row.kind = "vehicle" =>
           /\ row.line \in C17Lines
           /\ \E k \in 1..Len(MBTA_LINES) :
                  /\ MBTA_LINES[k].name = row.line
                  /\ row.current_station \in Range(MBTA_LINES[k].stations)
    /\ ret.gen = "mbta" => (ret.status = "returned" /\ ret.rows \in 62..102)

\* the multipliers the table of C18 offers an hour: its buckets overlap at hours
\* 8 and 18 of a weekday, which are business hours and peak residential hours
C18Table(hour, is_weekday) ==
    IF is_weekday
    THEN LET business == IF hour \in 8..18 THEN {13000} ELSE {}
             peak == IF hour \in (6..8) \cup (18..22) THEN {14000} ELSE {}
         IN  IF business \cup peak = {} THEN {8000} ELSE business \cup peak
    ELSE IF hour \in 10..16 THEN {11000}
         ELSE IF hour \in 18..23 THEN {12000}
         ELSE {9000}

C18OverlapIsBusiness ==
    (row.kind = "energy" /\ IsWeekday(current_time) /\ Hour(current_time) \in {8, 18}) =>
        locals.base_multiplier = 13000

\* C20: the temperature is always drawn from [15, 30] Celsius, so the cold-day
\* branch (temp < 5, +0.15) is never taken: the final demand multiplier is the
\* table value or the table value + 0.2, temperature_f is in [59, 86] and
\* total_demand_mw is in [1900, 4100].
C20_EnergyRanges ==
    row.kind = "energy" =>
        /\ locals.temp \in (15 * Scale)..(30 * Scale)
        /\ locals.demand_multiplier - locals.base_multiplier \in {0, 2000}
        /\ row.temperature_f \in (59 * Scale)..(86 * Scale)
        /\ row.total_demand_mw \in (1900 * Scale)..(4100 * Scale)

\* the hottest draw in a weekday peak hour with the largest noise: 86 F and
\* 4100 MW
C20_Witness ==
    /\ row.kind = "energy"
    /\ locals.temp = 30 * Scale
    /\ locals.demand_multiplier = 16000
    /\ row.temperature_f = 86 * Scale
    /\ row.total_demand_mw = 4100 * Scale

-----------------------------------------------------------------------------
(* main(): one refresh cycle *)

\* the options of the "Select Module" selectbox
Modules ==
    {"Overview", "Traffic Analysis", "MBTA Transit", "Air Quality", "Energy Grid",
     "Analytics"}

\* the display function the if / elif chain of lines 462-473 calls for a module
DisplayFor(module) ==
    CASE module = "Overview" -> "display_overview"
      [] module = "Traffic Analysis" -> "display_traffic_analysis"
      [] module = "MBTA Transit" -> "display_mbta_analysis"
      [] module = "Air Quality" -> "display_air_quality_analysis"
      [] module = "Energy Grid" -> "display_energy_analysis"
      [] module = "Analytics" -> "display_advanced_analytics"

\* current_time while no simulator has been constructed
NoTime == -1

\* simulator = BostonDataSimulator()
MainConstruct ==
    /\ main.pc = "start"
    /\ current_time' \in TimeSamples
    /\ main' = [pc |-> "select"]
    /\ UNCHANGED <<pc, idx, rows, row, locals, ret, runs, probe>>

\* module = st.selectbox("Select Module", [...])
MainSelect ==
    /\ main.pc = "select"
    /\ \E module \in Modules :
           main' = [pc |-> "sidebar_traffic", module |-> module,
                    traffic_data |-> NoRet, display |-> "None"]
    /\ UNCHANGED <<current_time, pc, idx, rows, row, locals, ret, runs, probe>>

\* the call of simulator.simulate_traffic_data() at line 448
MainCallTraffic ==
    /\ main.pc = "sidebar_traffic"
    /\ ret = NoRet
    /\ TrafficCall

\* traffic_data = <the returned frame>
MainTrafficData ==
    /\ main.pc = "sidebar_traffic"
    /\ pc = "idle"
    /\ ret.gen = "traffic"
    /\ main' = [main EXCEPT !.pc = "sidebar_mbta", !.traffic_data = ret]
    /\ ret' = NoRet
    /\ UNCHANGED <<current_time, pc, idx, rows, row, locals, runs, probe>>

\* the call of simulator.simulate_mbta_data() at line 449
MainCallMbta ==
    /\ main.pc = "sidebar_mbta"
    /\ ret = NoRet
    /\ MbtaCall

\* the outcome of line 449: an exception leaves main(), a returned frame lets
\* the sidebar statistics be computed (lines 450-454) and the selected module's
\* display function be called with the simulator (lines 462-473)
MainSidebarStats ==
    /\ main.pc = "sidebar_mbta"
    /\ pc = "idle"
    /\ ret.gen = "mbta"
    /\ IF ret.status # "returned"
       THEN main' = [main EXCEPT !.pc = "raised"]
       ELSE main' = [main EXCEPT !.pc = "display", !.display = DisplayFor(main.module)]
    /\ UNCHANGED <<current_time, pc, idx, rows, row, locals, ret, runs, probe>>

InitMain ==
    /\ current_time = NoTime
    /\ pc = "idle"
    /\ idx = 0
    /\ rows = 0
    /\ row = NoRow
    /\ locals = NoLocals
    /\ ret = NoRet
    /\ runs = NoRuns
    /\ probe = NoProbe
    /\ main = [pc |-> "start"]

NextMain ==
    \/ MainConstruct
    \/ MainSelect
    \/ MainCallTraffic
    \/ TrafficIteration
    \/ TrafficNext
    \/ TrafficReturn
    \/ MainTrafficData
    \/ MainCallMbta
    \/ MbtaLine
    \/ MbtaVehicle
    \/ MainSidebarStats

SpecMain == InitMain /\ [][NextMain]_vars

\* C19: in every refresh cycle the simulator is constructed before any
\* generator is invoked, the sidebar statistics are computed from generator
\* output, and the cycle reaches and completes the display function of exactly
\* the selected module, handing it that same simulator: no cycle ends before
\* its display function.
C19_RefreshReachesDisplay ==
    /\ pc # "idle" => current_time # NoTime
    /\ main.pc = "sidebar_mbta" => main.traffic_data.status = "returned"
    /\ main.pc = "display" => main.display = DisplayFor(main.module)
    /\ main.pc # "raised"

\* the part of C19 that precedes the failing call: the simulator is constructed
\* before any generator runs, and the traffic frame of the sidebar is returned
C19ConstructedFirst ==
    /\ pc # "idle" => (current_time # NoTime /\ main.pc \in {"sidebar_traffic", "sidebar_mbta"})
    /\ main.pc \in {"sidebar_mbta", "raised"} =>
           (main.traffic_data.status = "returned" /\ main.traffic_data.rows = 22)

\* C21: on the shipped station list every generated aqi lies in [10, 120], so
\* the clamp to [0, 300] leaves the sum it is applied to unchanged and the
\* categories Unhealthy and Very Unhealthy are never produced; outside the rush
\* hours aqi lies in [10, 95] and Unhealthy for Sensitive Groups is not
\* produced either.
C21_ShippedAqiRange ==
    (row.kind = "aqi" /\ locals.stations = AQI_STATIONS) =>
        /\ row.aqi \in 10..120
        /\ row.aqi = locals.sum
        /\ row.category \notin {"Unhealthy", "Very Unhealthy"}
        /\ Hour(current_time) \notin (7..9) \cup (17..19) =>
               /\ row.aqi \in 10..95
               /\ row.category # "Unhealthy for Sensitive Groups"

\* the largest aqi of the shipped list: Logan Airport in a rush hour, 120,
\* Unhealthy for Sensitive Groups
C21_Witness ==
    /\ row.kind = "aqi"
    /\ locals.stations = AQI_STATIONS
    /\ Hour(current_time) \in (7..9) \cup (17..19)
    /\ row.station = "Logan Airport"
    /\ row.aqi = 120
    /\ row.category = "Unhealthy for Sensitive Groups"

\* both ends of the range outside the rush hours are produced: 10 and 95
C21OffRushEnds ==
    /\ row.kind = "aqi"
    /\ locals.stations = AQI_STATIONS
    /\ Hour(current_time) \notin (7..9) \cup (17..19)
    /\ row.aqi \in {10, 95}

====
